---- MODULE Spec2Model ----
(***************************************************************************)
(* peek: a terminal file explorer with a preview pane (src/src/main.rs).   *)
(* The model is the state machine of run(): the mode, ExplorerState,       *)
(* PreviewState and the key handlers, over a small fixed file system.      *)
(*                                                                         *)
(* Strings are sequences of Unicode scalars, each scalar a one-element     *)
(* TLA+ string; a path is the sequence of its components below the root.   *)
(* Option<T> is <<>> (None) or <<x>> (Some(x)).                            *)
(***************************************************************************)
EXTENDS Integers, Sequences, FiniteSets, TLC

VARIABLES
    mode,             \* run: AppMode
    current_path,     \* ExplorerState.current_path
    entries,          \* ExplorerState.entries
    list_state,       \* ExplorerState.list_state.selected(): Option<usize>
    status_message,   \* ExplorerState.status_message: Option<String>
    is_error,         \* ExplorerState.is_error
    command_input,    \* ExplorerState.command_input
    in_command_mode,  \* ExplorerState.in_command_mode
    preview_state,    \* run: Option<PreviewState>
    result,           \* what run() has returned: "running", "quit" or "error"
    system_clipboard, \* the text last handed to Clipboard::set_text with success
    opened,           \* the paths handed to opener::open
    last,             \* the branch of the loop body taken by the last iteration
    prev_message      \* status_message and is_error as that iteration found them

vars == <<mode, current_path, entries, list_state, status_message, is_error,
          command_input, in_command_mode, preview_state, result,
          system_clipboard, opened, last, prev_message>>

explorer_vars == <<current_path, entries, list_state, status_message, is_error,
                   command_input, in_command_mode>>

None == <<>>
Some(x) == <<x>>
is_some(o) == o /= <<>>
unwrap(o) == o[1]

Max(a, b) == IF a >= b THEN a ELSE b

(***************************************************************************)
(* Strings                                                                 *)
(***************************************************************************)

\* UTF-8 width of a scalar ("U+00E9" stands for the two-byte scalar U+00E9):
\* the byte length of a String counts these
Utf8Len(c) == IF c = "U+00E9" THEN 2 ELSE 1

RECURSIVE len_bytes(_)
len_bytes(s) == IF s = <<>> THEN 0 ELSE Utf8Len(Head(s)) + len_bytes(Tail(s))

\* str::chars().count()
chars_count(s) == Len(s)

is_whitespace(c) == c \in {" ", "\t", "\n", "\r"}

RECURSIVE trim_start(_)
trim_start(s) ==
    IF s /= <<>> /\ is_whitespace(Head(s)) THEN trim_start(Tail(s)) ELSE s

RECURSIVE trim_end(_)
trim_end(s) ==
    IF s /= <<>> /\ is_whitespace(s[Len(s)])
    THEN trim_end(SubSeq(s, 1, Len(s) - 1))
    ELSE s

\* str::trim
trim(s) == trim_end(trim_start(s))

\* str::split_whitespace: the maximal runs of non-whitespace scalars
RECURSIVE split_ws(_, _, _)
split_ws(s, cur, acc) ==
    IF s = <<>>
    THEN IF cur = <<>> THEN acc ELSE Append(acc, cur)
    ELSE IF is_whitespace(Head(s))
         THEN split_ws(Tail(s), <<>>, IF cur = <<>> THEN acc ELSE Append(acc, cur))
         ELSE split_ws(Tail(s), Append(cur, Head(s)), acc)

split_whitespace(s) == split_ws(s, <<>>, <<>>)

\* str::lines: split at "\n", a "\r" before it dropped, no final empty line
strip_cr(l) ==
    IF l /= <<>> /\ l[Len(l)] = "\r" THEN SubSeq(l, 1, Len(l) - 1) ELSE l

RECURSIVE lines_from(_, _, _)
lines_from(s, cur, acc) ==
    IF s = <<>>
    THEN IF cur = <<>> THEN acc ELSE Append(acc, cur)
    ELSE IF Head(s) = "\n"
         THEN lines_from(Tail(s), <<>>, Append(acc, strip_cr(cur)))
         ELSE lines_from(Tail(s), Append(cur, Head(s)), acc)

lines(s) == lines_from(s, <<>>, <<>>)

(***************************************************************************)
(* Paths and the file system the program runs on                           *)
(***************************************************************************)

\* the scalars used in file names, in ascending byte order
ByteOrder == <<".", "S", "a", "b", "c", "d", "e", "g", "h", "i", "k", "l", "m",
               "n", "o", "p", "t", "u", "w", "x">>

byte_rank(c) == CHOOSE i \in 1..Len(ByteOrder) : ByteOrder[i] = c

\* Ord for OsStr: bytewise lexicographic
RECURSIVE cmp_str(_, _)
cmp_str(a, b) ==
    IF a = <<>> /\ b = <<>> THEN "Equal"
    ELSE IF a = <<>> THEN "Less"
    ELSE IF b = <<>> THEN "Greater"
    ELSE IF byte_rank(Head(a)) < byte_rank(Head(b)) THEN "Less"
    ELSE IF byte_rank(Head(a)) > byte_rank(Head(b)) THEN "Greater"
    ELSE cmp_str(Tail(a), Tail(b))

\* Ord for Path: component by component
RECURSIVE cmp_path(_, _)
cmp_path(a, b) ==
    IF a = <<>> /\ b = <<>> THEN "Equal"
    ELSE IF a = <<>> THEN "Less"
    ELSE IF b = <<>> THEN "Greater"
    ELSE IF cmp_str(Head(a), Head(b)) /= "Equal" THEN cmp_str(Head(a), Head(b))
    ELSE cmp_path(Tail(a), Tail(b))

Root == <<>>
join(dir, name) == Append(dir, name)

\* Path::parent
parent(p) == IF p = <<>> THEN None ELSE Some(SubSeq(p, 1, Len(p) - 1))

\* Path::file_name
file_name(p) == p[Len(p)]

\* Path::extension: what follows the last "." of the file name, unless the
\* name has no "." or only a leading one
last_dot(n) == IF \E i \in 1..Len(n) : n[i] = "."
               THEN CHOOSE i \in 1..Len(n) :
                        n[i] = "." /\ \A j \in (i + 1)..Len(n) : n[j] /= "."
               ELSE 0

extension(p) ==
    IF p = <<>> \/ file_name(p) = <<".", ".">> \/ last_dot(file_name(p)) <= 1
    THEN None
    ELSE Some(SubSeq(file_name(p), last_dot(file_name(p)) + 1, Len(file_name(p))))

Ext_md == <<"m", "d">>
Ext_html == <<"h", "t", "m", "l">>

N_w == <<"w">>
N_Sub == <<"S", "u", "b">>
N_nil == <<"n", "i", "l">>
N_lock == <<"l", "o", "c", "k">>
N_gone == <<"g", "o", "n", "e">>
N_up == <<"u", "p">>
N_a_md == <<"a", ".", "m", "d">>
N_b_txt == <<"b", ".", "t", "x", "t">>
N_p_html == <<"p", ".", "h", "t", "m", "l">>
N_e_txt == <<"e", ".", "t", "x", "t">>
N_x_bin == <<"x", ".", "b", "i", "n">>
N_n_md == <<"n", ".", "m", "d">>
N_in == <<"i", "n">>

W == <<N_w>>
W_Sub == <<N_w, N_Sub>>
W_lock_in == <<N_w, N_lock, N_in>>

\* the directories (a symbolic link to a directory is one: is_dir follows it)
Dirs == {Root, W, W_Sub, join(W, N_nil), join(W, N_lock), join(W, N_gone),
         join(W, N_up), W_lock_in}

\* directories whose listing fails (no read permission)
Unlistable == {join(W, N_lock)}

\* directories that are gone by the time they are canonicalized
Uncanonical == {join(W, N_gone)}

\* the text of the readable regular files
FileText ==
    (join(W, N_a_md) :> <<"#", " ", "H", "i">>) @@
    (join(W, N_b_txt) :> <<"h", "U+00E9", "\n", "l", "\n", "\n", "o">>) @@
    (join(W, N_p_html) :> <<"<", "b", ">", "x", "\n">>) @@
    (join(W, N_e_txt) :> <<>>)

\* regular files whose content cannot be read as UTF-8 text
Unreadable == {join(Root, N_x_bin), join(W, N_x_bin), join(W_Sub, N_n_md)}

Files == DOMAIN FileText \cup Unreadable

is_dir(p) == p \in Dirs
is_file(p) == p \in Files

\* fs::read_dir, in the order the system returns the names
DiskOrder ==
    (Root :> <<N_x_bin, N_w>>) @@
    (W :> <<N_b_txt, N_lock, N_a_md, N_up, N_Sub, N_x_bin, N_p_html, N_nil,
            N_e_txt, N_gone>>) @@
    (W_Sub :> <<N_n_md>>) @@
    (join(W, N_nil) :> <<>>) @@
    (join(W, N_lock) :> <<N_in>>) @@
    (W_lock_in :> <<>>)

read_dir(dir) ==
    IF dir \in DOMAIN DiskOrder /\ dir \notin Unlistable
    THEN Some([i \in 1..Len(DiskOrder[dir]) |-> join(dir, DiskOrder[dir][i])])
    ELSE None

\* dunce::canonicalize: symbolic links resolved (w/up is a link to the root)
canonicalize(p) ==
    IF p \in Uncanonical THEN None
    ELSE IF p = join(W, N_up) THEN Some(Root)
    ELSE Some(p)

\* (mutant) a read that yields an empty text where the file cannot be read
read_to_string_lossy(p) == IF p \in DOMAIN FileText THEN Some(FileText[p]) ELSE Some(<<>>)

\* fs::read_to_string
read_to_string(p) == IF p \in DOMAIN FileText THEN Some(FileText[p]) ELSE None

(***************************************************************************)
(* ExplorerState                                                           *)
(***************************************************************************)

\* (mutant) the comparator without reverse(): files first
entry_less_files_first(a, b) ==
    IF is_dir(a) /= is_dir(b) THEN is_dir(b)
    ELSE cmp_path(a, b) = "Less"

\* the comparator of load_entries: directories first, then by path
entry_less(a, b) ==
    IF is_dir(a) /= is_dir(b) THEN is_dir(a)
    ELSE cmp_path(a, b) = "Less"

\* slice::sort_by, as a stable insertion sort
RECURSIVE insert_sorted(_, _)
insert_sorted(sorted, x) ==
    IF sorted = <<>> THEN <<x>>
    ELSE IF entry_less(x, Head(sorted)) THEN <<x>> \o sorted
    ELSE <<Head(sorted)>> \o insert_sorted(Tail(sorted), x)

RECURSIVE sort_by(_)
sort_by(s) ==
    IF s = <<>> THEN <<>>
    ELSE insert_sorted(sort_by(SubSeq(s, 1, Len(s) - 1)), s[Len(s)])

\* (mutant) the cursor put on the first entry of an empty list too
reset_selection_always(new_entries) == Some(0)

\* the cursor load_entries leaves on the new entries
reset_selection(new_entries) == IF new_entries /= <<>> THEN Some(0) ELSE None

\* ExplorerState::load_entries: Err (None) when the listing fails, otherwise
\* the new entries and the cursor on them
load_entries(path) ==
    IF read_dir(path) = None THEN None
    ELSE LET new_entries == sort_by(unwrap(read_dir(path)))
         IN  Some([entries |-> new_entries,
                   list_state |-> reset_selection(new_entries)])

\* (mutant) next without the wrap at the last entry
next_nowrap(ents, sel) ==
    IF ents = <<>> THEN sel
    ELSE IF sel = None THEN Some(0)
    ELSE Some(unwrap(sel) + 1)

\* ExplorerState::next: the cursor after the call
next(ents, sel) ==
    IF ents = <<>> THEN sel
    ELSE IF sel = None THEN Some(0)
    ELSE IF unwrap(sel) >= Len(ents) - 1 THEN Some(0)
    ELSE Some(unwrap(sel) + 1)

\* ExplorerState::previous: the cursor after the call
previous(ents, sel) ==
    IF ents = <<>> THEN sel
    ELSE IF sel = None THEN Some(0)
    ELSE IF unwrap(sel) = 0 THEN Some(Len(ents) - 1)
    ELSE Some(unwrap(sel) - 1)

\* ExplorerState::set_message
set_message(message, err) ==
    /\ status_message' = Some(message)
    /\ is_error' = err

\* ExplorerState::clear_message
clear_message ==
    /\ status_message' = None
    /\ is_error' = FALSE

\* Vec::get, entries being indexed from 0
get(ents, i) == IF i < Len(ents) THEN Some(ents[i + 1]) ELSE None

(***************************************************************************)
(* PreviewState and the content pipeline                                   *)
(***************************************************************************)

\* the width of PreviewState.scroll
U16 == 65536

Span(text, style) == [content |-> text, style |-> style]

\* (mutant) a Text that leaves the empty lines out
text_styled_skips_empty(s, style) ==
    LET ls == SelectSeq(lines(s), LAMBDA l : l /= <<>>)
    IN  [i \in 1..Len(ls) |-> <<Span(ls[i], style)>>]

\* Text::styled: one line per line of the text, each a single span
text_styled(s, style) ==
    LET ls == lines(s)
    IN  [i \in 1..Len(ls) |-> <<Span(ls[i], style)>>]

\* (mutant) a scan in which ">" ends a run only inside a tag
RECURSIVE highlight_line_strict(_, _, _, _)
highlight_line_strict(line, spans, current_text, in_tag) ==
    IF line = <<>>
    THEN IF current_text /= <<>>
         THEN Append(spans, Span(current_text, IF in_tag THEN "comment" ELSE "fg"))
         ELSE spans
    ELSE IF Head(line) = "<"
         THEN highlight_line_strict(Tail(line),
                  IF current_text /= <<>>
                  THEN Append(spans,
                           Span(current_text, IF in_tag THEN "comment" ELSE "fg"))
                  ELSE spans,
                  <<"<">>, TRUE)
    ELSE IF Head(line) = ">" /\ in_tag
         THEN highlight_line_strict(Tail(line),
                  Append(spans, Span(Append(current_text, ">"), "comment")),
                  <<>>, FALSE)
    ELSE highlight_line_strict(Tail(line), spans, Append(current_text, Head(line)),
             in_tag)

\* highlight_html, the scan of one line: the spans pushed so far, the
\* pending run and the in_tag flag
RECURSIVE highlight_line(_, _, _, _)
highlight_line(line, spans, current_text, in_tag) ==
    IF line = <<>>
    THEN IF current_text /= <<>>
         THEN Append(spans, Span(current_text, IF in_tag THEN "comment" ELSE "fg"))
         ELSE spans
    ELSE IF Head(line) = "<"
         THEN highlight_line(Tail(line),
                  IF current_text /= <<>>
                  THEN Append(spans,
                           Span(current_text, IF in_tag THEN "comment" ELSE "fg"))
                  ELSE spans,
                  <<"<">>, TRUE)
    ELSE IF Head(line) = ">"
         THEN highlight_line(Tail(line),
                  Append(spans, Span(Append(current_text, ">"), "comment")),
                  <<>>, FALSE)
    ELSE highlight_line(Tail(line), spans, Append(current_text, Head(line)), in_tag)

\* highlight_html
highlight_html(html_source) ==
    LET ls == lines(html_source)
    IN  [i \in 1..Len(ls) |-> highlight_line(ls[i], <<>>, <<>>, FALSE)]

\* Text::height
height(content) == Len(content)

\* the Markdown converter (pulldown_cmark, html::push_html) on the texts of
\* the file system: a heading line becomes an h1 element, other text a
\* paragraph, each followed by a line break
markdown_to_html(md) ==
    IF md = <<>> THEN <<>>
    ELSE IF Len(md) >= 2 /\ md[1] = "#" /\ md[2] = " "
    THEN <<"<", "h", "1", ">">> \o SubSeq(md, 3, Len(md))
             \o <<"<", "/", "h", "1", ">", "\n">>
    ELSE <<"<", "p", ">">> \o md \o <<"<", "/", "p", ">", "\n">>

\* (mutant) the byte length instead of the number of scalars
char_count_bytes(s) == len_bytes(s)

\* content_str.chars().count()
char_count_of(s) == chars_count(s)

\* PreviewState::new_text; clipboard is the outcome of Clipboard::new().ok()
new_text(file_path, content_str, clipboard) ==
    [content |-> text_styled(content_str, "fg"),
     original_text |-> content_str,
     scroll |-> 0,
     title |-> file_path,
     char_count |-> char_count_of(content_str),
     status_message |-> None,
     clipboard |-> clipboard]

\* PreviewState::new_html
new_html(file_path, html_source, clipboard) ==
    [content |-> highlight_html(html_source),
     original_text |-> html_source,
     scroll |-> 0,
     title |-> file_path,
     char_count |-> char_count_of(html_source),
     status_message |-> None,
     clipboard |-> clipboard]

\* u16::saturating_sub(1)
saturating_sub1(x) == IF x = 0 THEN 0 ELSE x - 1

\* u16::saturating_add(1)
saturating_add1(x) == IF x = U16 - 1 THEN x ELSE x + 1

\* PreviewState::scroll_up: the new scroll
scroll_up(scroll) == saturating_sub1(scroll)

\* max_scroll of scroll_down: usize::saturating_sub(1), then `as u16`
max_scroll(h) == saturating_sub1(h) % U16

\* (mutant) scroll_down without the cap
scroll_down_nocap(scroll, h) == saturating_add1(scroll)

\* PreviewState::scroll_down: the new scroll, h being content.height()
scroll_down(scroll, h) ==
    IF scroll < max_scroll(h) THEN saturating_add1(scroll) ELSE scroll

(***************************************************************************)
(* The status texts. The literals of the source are Japanese; each is      *)
(* given here by its meaning, with the formatted argument beside it.       *)
(***************************************************************************)

msg_file_not_found(filename) == <<"file not found: ", filename>>
msg_read_error(e) == <<"file read error: ", e>>
msg_only_html == <<"only HTML files can be opened", <<>>>>
msg_open_failed(e) == <<"could not open in browser: ", e>>
msg_opened(filename) == <<"opened in browser: ", filename>>
msg_unknown_command(command_text) == <<"unknown command: ", command_text>>
msg_copy_failed(e) == <<"Copy failed: ", e>>
msg_clipboard_unavailable == <<"Clipboard not available", <<>>>>

\* the Display text of an error value
IoError == <<"e">>

(***************************************************************************)
(* run: the state after ExplorerState::new(), for each starting directory  *)
(***************************************************************************)

\* the directories the process may be started in
StartDirs == {W, W_Sub, join(W, N_lock), W_lock_in}

Init ==
    \E cwd \in StartDirs :
        /\ mode = "Explorer"
        /\ current_path = cwd
        /\ status_message = None
        /\ is_error = FALSE
        /\ command_input = <<>>
        /\ in_command_mode = FALSE
        /\ preview_state = None
        /\ system_clipboard = None
        /\ opened = {}
        /\ prev_message = <<None, FALSE>>
        /\ IF load_entries(cwd) = None
           THEN /\ entries = <<>>
                /\ list_state = None
                /\ result = "error"
                /\ last = "startup failed"
           ELSE /\ entries = unwrap(load_entries(cwd)).entries
                /\ list_state = unwrap(load_entries(cwd)).list_state
                /\ result = "running"
                /\ last = "startup"

Running == result = "running"

\* (mutant) main printing the error line for every Err, "quit" too
prints_error_always(res) == res /= "running"

\* main: the error line is printed when run returned an Err whose text is
\* not "quit" (result "error" stands for the Err of an I/O failure)
prints_error(res) == res /= "running" /\ res /= "quit"

\* terminal.draw, event::poll or event::read failed: run returns the Err
LoopIoError ==
    /\ Running
    /\ prev_message' = <<status_message, is_error>>
    /\ result' = "error"
    /\ last' = "io error"
    /\ UNCHANGED <<mode, explorer_vars, preview_state, system_clipboard, opened>>
Normal == Running /\ mode = "Explorer" /\ ~in_command_mode
CommandEntry == Running /\ mode = "Explorer" /\ in_command_mode
InPreview == Running /\ mode = "Preview"

\* event::poll timed out: redraw and loop
PollTimeout ==
    /\ Running
    /\ prev_message' = <<status_message, is_error>>
    /\ last' = "timeout"
    /\ UNCHANGED <<mode, explorer_vars, preview_state, result, system_clipboard,
                   opened>>

\* an event that is no key press
NotAKeyPress ==
    /\ Running
    /\ prev_message' = <<status_message, is_error>>
    /\ last' = "not a key press"
    /\ UNCHANGED <<mode, explorer_vars, preview_state, result, system_clipboard,
                   opened>>

(***************************************************************************)
(* Explorer, not in command mode                                           *)
(***************************************************************************)

\* (mutant) entering command mode with the status message left in place
KeyColon_keeps_message ==
    /\ Normal
    /\ prev_message' = <<status_message, is_error>>
    /\ in_command_mode' = TRUE
    /\ last' = "enter command mode"
    /\ UNCHANGED <<mode, current_path, entries, list_state, status_message,
                   is_error, command_input, preview_state, result,
                   system_clipboard, opened>>

\* KeyCode::Char(':')
KeyColon ==
    /\ Normal
    /\ prev_message' = <<status_message, is_error>>
    /\ clear_message
    /\ in_command_mode' = TRUE
    /\ last' = "enter command mode"
    /\ UNCHANGED <<mode, current_path, entries, list_state, command_input,
                   preview_state, result, system_clipboard, opened>>

\* KeyCode::Down | KeyCode::Char('j')
KeyNext ==
    /\ Normal
    /\ prev_message' = <<status_message, is_error>>
    /\ clear_message
    /\ list_state' = next(entries, list_state)
    /\ last' = "next"
    /\ UNCHANGED <<mode, current_path, entries, command_input, in_command_mode,
                   preview_state, result, system_clipboard, opened>>

\* KeyCode::Up | KeyCode::Char('k')
KeyPrevious ==
    /\ Normal
    /\ prev_message' = <<status_message, is_error>>
    /\ clear_message
    /\ list_state' = previous(entries, list_state)
    /\ last' = "previous"
    /\ UNCHANGED <<mode, current_path, entries, command_input, in_command_mode,
                   preview_state, result, system_clipboard, opened>>

\* (mutant) a reload that keeps the cursor where it was
reload_keeps_cursor(path, done) ==
    /\ current_path' = path
    /\ IF load_entries(path) = None
       THEN /\ result' = "error"
            /\ last' = "reload failed"
            /\ UNCHANGED <<entries, list_state>>
       ELSE /\ entries' = unwrap(load_entries(path)).entries
            /\ list_state' = IF unwrap(load_entries(path)).entries = <<>>
                             THEN None
                             ELSE IF list_state = None THEN Some(0)
                             ELSE IF unwrap(list_state) <
                                         Len(unwrap(load_entries(path)).entries)
                             THEN list_state
                             ELSE Some(0)
            /\ last' = done
            /\ UNCHANGED result

\* (mutant) a reload whose failure does not end the loop
reload_ignores_failure(path, done) ==
    /\ current_path' = path
    /\ IF load_entries(path) = None
       THEN /\ last' = "reload failed"
            /\ UNCHANGED <<entries, list_state, result>>
       ELSE /\ entries' = unwrap(load_entries(path)).entries
            /\ list_state' = unwrap(load_entries(path)).list_state
            /\ last' = done
            /\ UNCHANGED result

\* current_path = path; load_entries()?
reload(path, done) ==
    /\ current_path' = path
    /\ IF load_entries(path) = None
       THEN /\ result' = "error"
            /\ last' = "reload failed"
            /\ UNCHANGED <<entries, list_state>>
       ELSE /\ entries' = unwrap(load_entries(path)).entries
            /\ list_state' = unwrap(load_entries(path)).list_state
            /\ last' = done
            /\ UNCHANGED result

\* KeyCode::Left | KeyCode::Char('h') | KeyCode::Backspace
KeyParent ==
    /\ Normal
    /\ prev_message' = <<status_message, is_error>>
    /\ clear_message
    /\ IF is_some(parent(current_path))
       THEN reload(unwrap(parent(current_path)), "parent")
       ELSE /\ last' = "no parent"
            /\ UNCHANGED <<current_path, entries, list_state, result>>
    /\ UNCHANGED <<mode, command_input, in_command_mode, preview_state,
                   system_clipboard, opened>>

\* (mutant) .html entries taken through the conversion like .md ones
is_markdown_or_html(path) == extension(path) \in {Some(Ext_md), Some(Ext_html)}

\* selected_path.extension() == Some("md")
is_markdown(path) == extension(path) = Some(Ext_md)

\* preview_state = Some(doc); mode = AppMode::Preview
open_preview(doc) ==
    /\ preview_state' = Some(doc)
    /\ mode' = "Preview"

\* KeyCode::Right | KeyCode::Char('l') | KeyCode::Enter
KeyEnter ==
    /\ Normal
    /\ prev_message' = <<status_message, is_error>>
    /\ IF is_some(list_state) /\ is_some(get(entries, unwrap(list_state)))
       THEN LET selected_path == unwrap(get(entries, unwrap(list_state)))
            IN  IF is_dir(selected_path)
                THEN /\ clear_message
                     /\ IF canonicalize(selected_path) = None
                        THEN /\ result' = "error"
                             /\ last' = "canonicalize failed"
                             /\ UNCHANGED <<current_path, entries, list_state>>
                        ELSE reload(unwrap(canonicalize(selected_path)), "enter directory")
                     /\ UNCHANGED <<mode, preview_state>>
                ELSE /\ UNCHANGED <<current_path, entries, list_state, result>>
                     /\ IF read_to_string(selected_path) = None
                        THEN /\ set_message(msg_read_error(IoError), TRUE)
                             /\ last' = "read failed"
                             /\ UNCHANGED <<mode, preview_state>>
                        ELSE \E clipboard \in {None, Some("handle")} :
                               /\ clear_message
                               /\ IF is_markdown(selected_path)
                                  THEN /\ open_preview(new_html(selected_path,
                                           markdown_to_html(
                                               unwrap(read_to_string(selected_path))),
                                           clipboard))
                                       /\ last' = "enter markdown"
                                  ELSE /\ open_preview(new_text(selected_path,
                                           unwrap(read_to_string(selected_path)),
                                           clipboard))
                                       /\ last' = "enter file"
       ELSE /\ clear_message
            /\ last' = "nothing selected"
            /\ UNCHANGED <<mode, current_path, entries, list_state, preview_state,
                           result>>
    /\ UNCHANGED <<command_input, in_command_mode, system_clipboard, opened>>

\* (mutant) a key without a binding that leaves the status message
KeyUnbound_keeps_message ==
    /\ Normal
    /\ prev_message' = <<status_message, is_error>>
    /\ last' = "unbound key"
    /\ UNCHANGED <<mode, explorer_vars, preview_state, result, system_clipboard,
                   opened>>

\* any other key
KeyUnbound ==
    /\ Normal
    /\ prev_message' = <<status_message, is_error>>
    /\ clear_message
    /\ last' = "unbound key"
    /\ UNCHANGED <<mode, current_path, entries, list_state, command_input,
                   in_command_mode, preview_state, result, system_clipboard, opened>>

(***************************************************************************)
(* Explorer, command mode                                                  *)
(***************************************************************************)

SP == <<" ">>
T_q == <<"q">>
T_cat == <<"c", "a", "t">>
T_ob == <<"o", "b">>
T_no == <<"n", "o">>
T_zz == <<"z", "z">>

\* the command lines a user types; every prefix of one can be in the buffer
CommandLines ==
    {T_q, SP \o T_q \o SP, T_q \o SP \o <<"x">>, SP \o SP, T_zz,
     SP \o T_zz \o SP \o SP \o T_q \o SP, T_cat,
     T_cat \o SP \o N_b_txt, T_cat \o SP \o N_a_md \o SP \o <<"b">>,
     T_cat \o SP \o N_p_html, T_cat \o SP \o N_Sub, T_cat \o SP \o N_x_bin,
     T_cat \o SP \o N_e_txt, T_cat \o SP \o T_no,
     T_ob \o SP \o N_p_html, T_ob \o SP \o N_a_md, T_ob \o SP \o N_Sub,
     T_ob \o SP \o T_no}

TypedPrefixes == UNION {{SubSeq(l, 1, k) : k \in 0..Len(l)} : l \in CommandLines}

TypedChars == UNION {{l[i] : i \in 1..Len(l)} : l \in CommandLines}

\* ["cat", filename]
ExecuteCat(filename) ==
    LET file_path == join(current_path, filename)
    IN  /\ UNCHANGED <<result, opened>>
        /\ IF ~is_file(file_path)
           THEN /\ set_message(msg_file_not_found(filename), TRUE)
                /\ last' = "cat: not a file"
                /\ UNCHANGED <<mode, preview_state>>
           ELSE IF read_to_string(file_path) = None
           THEN /\ set_message(msg_read_error(IoError), TRUE)
                /\ last' = "cat: read failed"
                /\ UNCHANGED <<mode, preview_state>>
           ELSE \E clipboard \in {None, Some("handle")} :
                  /\ clear_message
                  /\ open_preview(new_text(file_path,
                         unwrap(read_to_string(file_path)), clipboard))
                  /\ last' = "cat"

\* (mutant) ob checking the extension before the kind of the file
ExecuteOb_extension_first(filename) ==
    LET file_path == join(current_path, filename)
    IN  /\ UNCHANGED <<mode, preview_state, result>>
        /\ IF extension(file_path) /= Some(Ext_html)
           THEN /\ set_message(msg_only_html, TRUE)
                /\ last' = "ob: not html"
                /\ UNCHANGED opened
           ELSE IF ~is_file(file_path)
           THEN /\ set_message(msg_file_not_found(filename), TRUE)
                /\ last' = "ob: not a file"
                /\ UNCHANGED opened
           ELSE /\ opened' = opened \cup {file_path}
                /\ \/ /\ set_message(msg_open_failed(IoError), TRUE)
                      /\ last' = "ob: open failed"
                   \/ /\ set_message(msg_opened(filename), FALSE)
                      /\ last' = "ob: opened"

\* ["ob", filename]
ExecuteOb(filename) ==
    LET file_path == join(current_path, filename)
    IN  /\ UNCHANGED <<mode, preview_state, result>>
        /\ IF ~is_file(file_path)
           THEN /\ set_message(msg_file_not_found(filename), TRUE)
                /\ last' = "ob: not a file"
                /\ UNCHANGED opened
           ELSE IF extension(file_path) /= Some(Ext_html)
           THEN /\ set_message(msg_only_html, TRUE)
                /\ last' = "ob: not html"
                /\ UNCHANGED opened
           ELSE /\ opened' = opened \cup {file_path}
                /\ \/ /\ set_message(msg_open_failed(IoError), TRUE)
                      /\ last' = "ob: open failed"
                   \/ /\ set_message(msg_opened(filename), FALSE)
                      /\ last' = "ob: opened"

\* (mutant) the match deciding on the first token alone, whatever follows
Execute_first_token(command_text, parts) ==
    IF parts /= <<>> /\ parts[1] = T_q
    THEN /\ result' = "quit"
         /\ clear_message
         /\ last' = "quit"
         /\ UNCHANGED <<mode, preview_state, opened>>
    ELSE IF Len(parts) >= 2 /\ parts[1] = T_cat THEN ExecuteCat(parts[2])
    ELSE IF Len(parts) >= 2 /\ parts[1] = T_ob THEN ExecuteOb(parts[2])
    ELSE IF parts = <<>>
    THEN /\ clear_message
         /\ last' = "empty command"
         /\ UNCHANGED <<mode, preview_state, result, opened>>
    ELSE /\ set_message(msg_unknown_command(command_text), TRUE)
         /\ last' = "unknown command"
         /\ UNCHANGED <<mode, preview_state, result, opened>>

\* the match on the tokens of the command line
Execute(command_text, parts) ==
    IF parts = <<T_q>>
    THEN /\ result' = "quit"
         /\ clear_message
         /\ last' = "quit"
         /\ UNCHANGED <<mode, preview_state, opened>>
    ELSE IF Len(parts) = 2 /\ parts[1] = T_cat THEN ExecuteCat(parts[2])
    ELSE IF Len(parts) = 2 /\ parts[1] = T_ob THEN ExecuteOb(parts[2])
    ELSE IF parts = <<>>
    THEN /\ clear_message
         /\ last' = "empty command"
         /\ UNCHANGED <<mode, preview_state, result, opened>>
    ELSE /\ set_message(msg_unknown_command(command_text), TRUE)
         /\ last' = "unknown command"
         /\ UNCHANGED <<mode, preview_state, result, opened>>

\* (mutant) a buffer that is not cleared
clear_nothing(s) == s

\* String::clear
clear(s) == <<>>

\* (mutant) Enter that leaves the command sub-state active
CmdEnter_stays ==
    /\ CommandEntry
    /\ prev_message' = <<status_message, is_error>>
    /\ command_input' = clear(command_input)
    /\ UNCHANGED in_command_mode
    /\ Execute(trim(command_input), split_whitespace(trim(command_input)))
    /\ UNCHANGED <<current_path, entries, list_state, system_clipboard>>

\* KeyCode::Enter
CmdEnter ==
    /\ CommandEntry
    /\ prev_message' = <<status_message, is_error>>
    /\ command_input' = clear(command_input)
    /\ in_command_mode' = FALSE
    /\ Execute(trim(command_input), split_whitespace(trim(command_input)))
    /\ UNCHANGED <<current_path, entries, list_state, system_clipboard>>

\* KeyCode::Char(c)
CmdChar ==
    /\ CommandEntry
    /\ prev_message' = <<status_message, is_error>>
    /\ \E c \in TypedChars :
          /\ Append(command_input, c) \in TypedPrefixes
          /\ command_input' = Append(command_input, c)
    /\ last' = "command char"
    /\ UNCHANGED <<mode, current_path, entries, list_state, status_message,
                   is_error, in_command_mode, preview_state, result,
                   system_clipboard, opened>>

\* String::pop
pop(s) == IF s = <<>> THEN s ELSE SubSeq(s, 1, Len(s) - 1)

\* KeyCode::Backspace
CmdBackspace ==
    /\ CommandEntry
    /\ prev_message' = <<status_message, is_error>>
    /\ command_input' = pop(command_input)
    /\ last' = "command backspace"
    /\ UNCHANGED <<mode, current_path, entries, list_state, status_message,
                   is_error, in_command_mode, preview_state, result,
                   system_clipboard, opened>>

\* KeyCode::Esc
CmdEsc ==
    /\ CommandEntry
    /\ prev_message' = <<status_message, is_error>>
    /\ command_input' = clear(command_input)
    /\ in_command_mode' = FALSE
    /\ last' = "command cancel"
    /\ UNCHANGED <<mode, current_path, entries, list_state, status_message,
                   is_error, preview_state, result, system_clipboard, opened>>

\* any other key
CmdUnbound ==
    /\ CommandEntry
    /\ prev_message' = <<status_message, is_error>>
    /\ last' = "command unbound key"
    /\ UNCHANGED <<mode, explorer_vars, preview_state, result, system_clipboard,
                   opened>>

(***************************************************************************)
(* Preview                                                                 *)
(***************************************************************************)

HasDocument == InPreview /\ is_some(preview_state)
doc == unwrap(preview_state)

\* (mutant) closing that keeps the document
KeyClose_keeps_document ==
    /\ HasDocument
    /\ prev_message' = <<status_message, is_error>>
    /\ mode' = "Explorer"
    /\ last' = "close preview"
    /\ UNCHANGED <<explorer_vars, preview_state, result, system_clipboard, opened>>

\* (mutant) closing that puts the cursor back on the first entry
KeyClose_resets_cursor ==
    /\ HasDocument
    /\ prev_message' = <<status_message, is_error>>
    /\ preview_state' = None
    /\ mode' = "Explorer"
    /\ list_state' = reset_selection(entries)
    /\ last' = "close preview"
    /\ UNCHANGED <<current_path, entries, status_message, is_error, command_input,
                   in_command_mode, result, system_clipboard, opened>>

\* KeyCode::Char('q')
KeyClose ==
    /\ HasDocument
    /\ prev_message' = <<status_message, is_error>>
    /\ preview_state' = None
    /\ mode' = "Explorer"
    /\ last' = "close preview"
    /\ UNCHANGED <<explorer_vars, result, system_clipboard, opened>>

\* KeyCode::Up | KeyCode::Char('k')
KeyScrollUp ==
    /\ HasDocument
    /\ prev_message' = <<status_message, is_error>>
    /\ preview_state' = Some([doc EXCEPT !.scroll = scroll_up(doc.scroll)])
    /\ last' = "scroll up"
    /\ UNCHANGED <<mode, explorer_vars, result, system_clipboard, opened>>

\* KeyCode::Down | KeyCode::Char('j')
KeyScrollDown ==
    /\ HasDocument
    /\ prev_message' = <<status_message, is_error>>
    /\ preview_state' =
           Some([doc EXCEPT !.scroll = scroll_down(doc.scroll, height(doc.content))])
    /\ last' = "scroll down"
    /\ UNCHANGED <<mode, explorer_vars, result, system_clipboard, opened>>

\* the text of one line of a Text: its spans one after the other
RECURSIVE line_text(_)
line_text(spans) ==
    IF spans = <<>> THEN <<>> ELSE Head(spans).content \o line_text(Tail(spans))

\* the text a Text displays: its lines, a line break between two of them
RECURSIVE displayed_text(_)
displayed_text(content) ==
    IF content = <<>> THEN <<>>
    ELSE IF Len(content) = 1 THEN line_text(content[1])
    ELSE line_text(content[1]) \o <<"\n">> \o displayed_text(Tail(content))

\* (mutant) the displayed text copied instead of the original
copied_text_rendered(d) == displayed_text(d.content)

\* the text copy_to_clipboard hands to Clipboard::set_text
copied_text(d) == d.original_text

\* (mutant) a copy whose success leaves the status of an earlier failure
copy_to_clipboard_keeps_status ==
    \E acquired \in {None, Some("handle")} :
        LET clipboard == IF doc.clipboard = None THEN acquired ELSE doc.clipboard
        IN  IF is_some(clipboard)
            THEN \/ /\ preview_state' =
                           Some([doc EXCEPT !.clipboard = clipboard,
                                            !.status_message =
                                                Some(msg_copy_failed(IoError))])
                    /\ last' = "copy failed"
                    /\ UNCHANGED system_clipboard
                 \/ /\ preview_state' = Some([doc EXCEPT !.clipboard = clipboard])
                    /\ system_clipboard' = Some(copied_text(doc))
                    /\ last' = "copied"
            ELSE /\ preview_state' =
                        Some([doc EXCEPT !.status_message =
                                             Some(msg_clipboard_unavailable)])
                 /\ last' = "clipboard not available"
                 /\ UNCHANGED system_clipboard

\* PreviewState::copy_to_clipboard
copy_to_clipboard ==
    \E acquired \in {None, Some("handle")} :
        LET clipboard == IF doc.clipboard = None THEN acquired ELSE doc.clipboard
        IN  IF is_some(clipboard)
            THEN \/ /\ preview_state' =
                           Some([doc EXCEPT !.clipboard = clipboard,
                                            !.status_message =
                                                Some(msg_copy_failed(IoError))])
                    /\ last' = "copy failed"
                    /\ UNCHANGED system_clipboard
                 \/ /\ preview_state' =
                           Some([doc EXCEPT !.clipboard = clipboard,
                                            !.status_message = None])
                    /\ system_clipboard' = Some(copied_text(doc))
                    /\ last' = "copied"
            ELSE /\ preview_state' =
                        Some([doc EXCEPT !.status_message =
                                             Some(msg_clipboard_unavailable)])
                 /\ last' = "clipboard not available"
                 /\ UNCHANGED system_clipboard

\* KeyCode::Char('y')
KeyCopy ==
    /\ HasDocument
    /\ prev_message' = <<status_message, is_error>>
    /\ copy_to_clipboard
    /\ UNCHANGED <<mode, explorer_vars, result, opened>>

\* any other key, and every key while no document is held
KeyIgnored ==
    /\ InPreview
    /\ prev_message' = <<status_message, is_error>>
    /\ last' = "preview unbound key"
    /\ UNCHANGED <<mode, explorer_vars, preview_state, result, system_clipboard,
                   opened>>

(***************************************************************************)
(* The loop of run                                                         *)
(***************************************************************************)

Next ==
    \/ PollTimeout
    \/ NotAKeyPress
    \/ KeyColon
    \/ KeyNext
    \/ KeyPrevious
    \/ KeyParent
    \/ KeyEnter
    \/ KeyUnbound
    \/ CmdEnter
    \/ CmdChar
    \/ CmdBackspace
    \/ CmdEsc
    \/ CmdUnbound
    \/ KeyClose
    \/ KeyScrollUp
    \/ KeyScrollDown
    \/ KeyCopy
    \/ KeyIgnored
    \/ LoopIoError

Spec == Init /\ [][Next]_vars

(***************************************************************************)
(* Scrolling over documents of any height: the state after a file of h     *)
(* empty lines (h line breaks) was opened, then any scroll keys            *)
(***************************************************************************)

\* the greatest of the small heights
MaxSmallHeight == 10

\* how far beyond 2^16 lines the tall documents go
MaxOverflow == 6

ScrollHeights == 0..MaxSmallHeight \cup {U16 + 1 + k : k \in 0..MaxOverflow}

N_t_txt == <<"t", ".", "t", "x", "t">>

\* what new_text builds from a text of h line breaks
tall_document(h) ==
    [content |-> [i \in 1..h |-> <<Span(<<>>, "fg")>>],
     original_text |-> [i \in 1..h |-> "\n"],
     scroll |-> 0,
     title |-> join(W, N_t_txt),
     char_count |-> h,
     status_message |-> None,
     clipboard |-> None]

ScrollInit ==
    \E h \in ScrollHeights :
        /\ mode = "Preview"
        /\ current_path = W
        /\ entries = unwrap(load_entries(W)).entries
        /\ list_state = Some(0)
        /\ status_message = None
        /\ is_error = FALSE
        /\ command_input = <<>>
        /\ in_command_mode = FALSE
        /\ preview_state = Some(tall_document(h))
        /\ result = "running"
        /\ system_clipboard = None
        /\ opened = {}
        /\ prev_message = <<None, FALSE>>
        /\ last = "cat"

ScrollNext == KeyScrollUp \/ KeyScrollDown

ScrollSpec == ScrollInit /\ [][ScrollNext]_vars

(***************************************************************************)
(* Sorting any listing: load_entries between collecting the paths of a     *)
(* directory, in whatever order the system gives them, and storing them    *)
(***************************************************************************)

\* the longest listing
MaxListing == 4

\* the listings of at most MaxListing names of the directory w, in any order
Listings ==
    LET names == {DiskOrder[W][i] : i \in 1..Len(DiskOrder[W])}
        orders == UNION {[1..k -> names] : k \in 0..MaxListing}
    IN  {[i \in 1..Len(o) |-> join(W, o[i])] :
            o \in {f \in orders : \A i, j \in 1..Len(f) : i /= j => f[i] /= f[j]}}

\* load_entries after the collect(): entries holds the local vector
SortInit ==
    \E listing \in Listings :
        /\ mode = "Explorer"
        /\ current_path = W
        /\ entries = listing
        /\ list_state = None
        /\ status_message = None
        /\ is_error = FALSE
        /\ command_input = <<>>
        /\ in_command_mode = FALSE
        /\ preview_state = None
        /\ result = "running"
        /\ system_clipboard = None
        /\ opened = {}
        /\ prev_message = <<None, FALSE>>
        /\ last = "collected"

\* load_entries from sort_by to its end
SortEntries ==
    /\ last = "collected"
    /\ prev_message' = <<status_message, is_error>>
    /\ entries' = sort_by(entries)
    /\ list_state' = reset_selection(sort_by(entries))
    /\ last' = "sorted"
    /\ UNCHANGED <<mode, current_path, status_message, is_error, command_input,
                   in_command_mode, preview_state, result, system_clipboard, opened>>

SortNext == SortEntries

SortSpec == SortInit /\ [][SortNext]_vars

(***************************************************************************)
(* Rendering any text: the state after a preview of a source text was      *)
(* opened, by the cursor on an .md file whose conversion is the text, or    *)
(* on another file that holds it, then any scroll keys                      *)
(***************************************************************************)

\* the longest source text
MaxSourceLen == 5

SourceChars == {"<", ">", "a", "\n", "\r"}

Sources == UNION {[1..k -> SourceChars] : k \in 0..MaxSourceLen}

\* the cursor that is on the entry path
index_of(ents, path) == CHOOSE i \in 0..(Len(ents) - 1) : ents[i + 1] = path

RenderInit ==
    \E src \in Sources, how \in {"enter markdown", "enter file"} :
        LET path == IF how = "enter markdown" THEN join(W, N_a_md)
                    ELSE join(W, N_b_txt)
        IN  /\ mode = "Preview"
            /\ current_path = W
            /\ entries = unwrap(load_entries(W)).entries
            /\ list_state = Some(index_of(unwrap(load_entries(W)).entries, path))
            /\ status_message = None
            /\ is_error = FALSE
            /\ command_input = <<>>
            /\ in_command_mode = FALSE
            /\ preview_state =
                   Some(IF how = "enter markdown"
                        THEN new_html(path, src, None)
                        ELSE new_text(path, src, None))
            /\ result = "running"
            /\ system_clipboard = None
            /\ opened = {}
            /\ prev_message = <<None, FALSE>>
            /\ last = how

RenderNext == KeyScrollUp \/ KeyScrollDown

RenderSpec == RenderInit /\ [][RenderNext]_vars

(***************************************************************************)
(* Properties                                                              *)
(***************************************************************************)

\* C1: the cursor is None exactly when there are no entries, and otherwise
\* an index below the number of entries
C1_SelectionValid ==
    /\ (list_state = None) <=> (entries = <<>>)
    /\ is_some(list_state) =>
           (unwrap(list_state) >= 0 /\ unwrap(list_state) < Len(entries))

\* previous has wrapped the cursor from the first entry to the last
C1_Witness ==
    /\ last = "previous"
    /\ Len(entries) > 1
    /\ list_state = Some(Len(entries) - 1)

\* C2: the mode is one of the two, and a document is held exactly in Preview
C2_DocumentIffPreview ==
    /\ mode \in {"Explorer", "Preview"}
    /\ is_some(preview_state) <=> (mode = "Preview")

\* a preview was opened and closed again
C2_Witness ==
    /\ last = "close preview"
    /\ mode = "Explorer"
    /\ preview_state = None

\* C3 as stated: no Preview ever shows a document read from an .html file
C3_HtmlNeverPreviewed ==
    ~(mode = "Preview" /\ is_some(preview_state)
        /\ extension(doc.title) = Some(Ext_html))

\* C3, amended: an .html file is previewed only as the plain text it holds,
\* never through the conversion; the opener is handed .html files only, and
\* only by the ob command
C3_HtmlOnlyPlainText ==
    /\ [](/\ (mode = "Preview" /\ is_some(preview_state)
                /\ extension(doc.title) = Some(Ext_html)) =>
                   (/\ read_to_string(doc.title) = Some(doc.original_text)
                    /\ doc.content = text_styled(doc.original_text, "fg"))
          /\ \A p \in opened : is_file(p) /\ extension(p) = Some(Ext_html))
    /\ [][opened' /= opened => last' \in {"ob: opened", "ob: open failed"}]_vars

\* the cursor has entered p.html, which holds a tag
C3_Witness ==
    /\ last = "enter file"
    /\ mode = "Preview"
    /\ extension(doc.title) = Some(Ext_html)
    /\ \E i \in 1..Len(doc.original_text) : doc.original_text[i] = "<"

\* C4: the command buffer is empty whenever the command sub-state is not
\* active
C4_BufferEmptyWhenInactive ==
    (mode /= "Explorer" \/ ~in_command_mode) => command_input = <<>>

\* a typed cat command was executed and the preview is open
C4_Witness ==
    /\ last = "cat"
    /\ mode = "Preview"
    /\ command_input = <<>>

\* C5: a step that leaves Preview arrives in Explorer outside the command
\* sub-state
C5_CloseReturnsToNormal ==
    [][(mode = "Preview" /\ mode' /= "Preview") =>
           (mode' = "Explorer" /\ ~in_command_mode' /\ result' = "running")]_vars

\* a preview was closed while the cursor is on a directory, so it had been
\* opened by the cat command
C5_Witness ==
    /\ last = "close preview"
    /\ is_some(list_state)
    /\ is_dir(entries[unwrap(list_state) + 1])
    /\ ~in_command_mode

\* C6: the scroll offset of the document is between 0 and
\* max(0, height - 1), and is 0 when the document is created
C6_ScrollInRange ==
    /\ [](is_some(preview_state) =>
              (doc.scroll >= 0
                 /\ doc.scroll <= Max(0, height(doc.content) - 1)))
    /\ [][(preview_state = None /\ preview_state' /= None) =>
              unwrap(preview_state').scroll = 0]_vars

\* scroll down has stopped at the last line of a document of several lines
C6_Witness ==
    /\ last = "scroll down"
    /\ is_some(preview_state)
    /\ height(doc.content) > 2
    /\ doc.scroll = height(doc.content) - 1

\* C7 as stated: scroll down adds exactly 1 while the offset is below
\* max(0, height - 1), the true height, and changes nothing otherwise
C7_ScrollDownExact ==
    [][KeyScrollDown =>
           unwrap(preview_state').scroll =
               IF doc.scroll < Max(0, height(doc.content) - 1)
               THEN doc.scroll + 1
               ELSE doc.scroll]_vars

\* C8: next and previous move the cursor circularly, and leave it None on
\* an empty list
C8_CircularMovement ==
    [][/\ KeyNext =>
              list_state' = IF entries = <<>> THEN None
                            ELSE Some((unwrap(list_state) + 1) % Len(entries))
       /\ KeyPrevious =>
              list_state' = IF entries = <<>> THEN None
                            ELSE Some((unwrap(list_state) - 1) % Len(entries))]_vars

\* next has wrapped the cursor from the last entry to the first
C8_Witness ==
    /\ last = "next"
    /\ Len(entries) > 2
    /\ list_state = Some(0)

\* C9: after a reload that succeeded the cursor is on the first entry, or
\* None when there is none
C9_ReloadResetsSelection ==
    last \in {"startup", "parent", "enter directory"} =>
        list_state = IF entries /= <<>> THEN Some(0) ELSE None

\* the root was entered through the link w/up, which is not the first entry
\* of w: the cursor was elsewhere before
C9_Witness ==
    /\ last = "enter directory"
    /\ current_path = Root
    /\ list_state = Some(0)

\* C10: cat of a readable regular file opens a preview of the text as it
\* is, in one style, with the number of its scalars, whatever its extension;
\* a document whose text is not the text of its file was opened by the
\* cursor entering an .md file
C10_CatShowsRawText ==
    [][/\ (preview_state = None /\ preview_state' /= None
             /\ read_to_string(unwrap(preview_state').title)
                    /= Some(unwrap(preview_state').original_text)) =>
               (/\ last' = "enter markdown"
                /\ extension(unwrap(preview_state').title) = Some(Ext_md))
       /\ LET parts == split_whitespace(trim(command_input))
          IN  (/\ CmdEnter
               /\ Len(parts) = 2
               /\ parts[1] = T_cat
               /\ is_file(join(current_path, parts[2]))
               /\ is_some(read_to_string(join(current_path, parts[2])))) =>
                  LET text == unwrap(read_to_string(join(current_path, parts[2])))
                      d == unwrap(preview_state')
                  IN  /\ mode' = "Preview"
                      /\ d.original_text = text
                      /\ d.char_count = Len(text)
                      /\ d.title = join(current_path, parts[2])
                      /\ Len(d.content) = Len(lines(text))
                      /\ \A i \in 1..Len(d.content) :
                             d.content[i] = <<Span(lines(text)[i], "fg")>>]_vars

\* cat has opened an .md file, whose text is shown unconverted
C10_Witness ==
    /\ last = "cat"
    /\ mode = "Preview"
    /\ extension(doc.title) = Some(Ext_md)
    /\ doc.original_text = FileText[doc.title]

\* the tokens of the command line in the buffer, and the file they name
typed_parts == split_whitespace(trim(command_input))
typed_path == join(current_path, typed_parts[2])
selected_entry == entries[unwrap(list_state) + 1]

\* C11: ob never leaves Explorer; a name that is no regular file is
\* reported as not found, whatever its extension; a regular file that is not
\* .html is refused without the opener being called; an .html file is handed
\* to the opener, whose failure is an error status and success an info status
C11_ObStaysInExplorer ==
    [][(CmdEnter /\ Len(typed_parts) = 2 /\ typed_parts[1] = T_ob) =>
           /\ mode' = "Explorer"
           /\ preview_state' = None
           /\ result' = "running"
           /\ ~is_file(typed_path) =>
                  (/\ status_message' = Some(msg_file_not_found(typed_parts[2]))
                   /\ is_error'
                   /\ opened' = opened)
           /\ (is_file(typed_path) /\ extension(typed_path) /= Some(Ext_html)) =>
                  (/\ status_message' = Some(msg_only_html)
                   /\ is_error'
                   /\ opened' = opened)
           /\ (is_file(typed_path) /\ extension(typed_path) = Some(Ext_html)) =>
                  (/\ opened' = opened \cup {typed_path}
                   /\ \/ (status_message' = Some(msg_open_failed(IoError))
                            /\ is_error')
                      \/ (status_message' = Some(msg_opened(typed_parts[2]))
                            /\ ~is_error'))]_vars

\* ob was given a directory, whose name has no extension: it is reported as
\* not found, not as a file of the wrong kind
C11_Witness ==
    /\ last = "ob: not a file"
    /\ mode = "Explorer"
    /\ status_message = Some(msg_file_not_found(N_Sub))
    /\ is_error
    /\ opened = {}

\* C12: a command line that is not q, cat x or ob x is reported as unknown
\* with its trimmed text and changes nothing else; an empty one leaves no
\* status
C12_UnknownCommand ==
    [][/\ (CmdEnter /\ typed_parts /= <<>> /\ typed_parts /= <<T_q>>
             /\ ~(Len(typed_parts) = 2 /\ typed_parts[1] \in {T_cat, T_ob})) =>
              (/\ status_message' = Some(<<"unknown command: ", trim(command_input)>>)
               /\ is_error'
               /\ mode' = "Explorer"
               /\ ~in_command_mode'
               /\ command_input' = <<>>
               /\ preview_state' = None
               /\ result' = "running")
       /\ (CmdEnter /\ typed_parts = <<>>) =>
              (/\ status_message' = None
               /\ ~is_error'
               /\ mode' = "Explorer"
               /\ ~in_command_mode'
               /\ command_input' = <<>>
               /\ result' = "running")]_vars

\* the line " zz  q " was executed: the text reported is "zz  q"
C12_Witness ==
    /\ last = "unknown command"
    /\ status_message = Some(msg_unknown_command(T_zz \o SP \o SP \o T_q))
    /\ ~in_command_mode
    /\ result = "running"

\* C13: cat of a name that is no regular file, and a file that cannot be
\* read (by cat or by the cursor), give an error status and change neither
\* the mode nor the directory, the entries and the cursor
C13_ReadFailureRecoverable ==
    [][((CmdEnter /\ Len(typed_parts) = 2 /\ typed_parts[1] = T_cat
           /\ (~is_file(typed_path) \/ typed_path \in Unreadable))
        \/ (KeyEnter /\ is_some(list_state) /\ selected_entry \in Unreadable)) =>
           /\ is_some(status_message')
           /\ is_error'
           /\ mode' = "Explorer"
           /\ preview_state' = None
           /\ result' = "running"
           /\ UNCHANGED <<current_path, entries, list_state>>]_vars

\* the cursor has entered x.bin, which cannot be read
C13_Witness ==
    /\ last = "read failed"
    /\ status_message = Some(msg_read_error(IoError))
    /\ is_error
    /\ mode = "Explorer"
    /\ selected_entry \in Unreadable

\* C14: a listing or canonicalization that fails ends the loop with an Err
\* that main prints, leaves no status message, and nothing happens afterwards
C14_ReloadFailureFatal ==
    /\ [](last = "startup failed" =>
              (result = "error" /\ prints_error(result) /\ status_message = None))
    /\ [][/\ ((KeyParent /\ is_some(parent(current_path))
                 /\ read_dir(unwrap(parent(current_path))) = None)
              \/ (KeyEnter /\ is_some(list_state) /\ is_dir(selected_entry)
                    /\ (canonicalize(selected_entry) = None
                          \/ read_dir(unwrap(canonicalize(selected_entry))) = None))) =>
                 (/\ result' = "error"
                  /\ prints_error(result')
                  /\ status_message' = None
                  /\ mode' = "Explorer")
          /\ result = "running"]_vars

\* entering the directory lock, which cannot be listed, has ended the loop
C14_Witness ==
    /\ last = "reload failed"
    /\ current_path = join(W, N_lock)
    /\ result = "error"

\* C15: the command q ends the loop without an error line; every other end
\* of the loop prints one; the key q outside command mode ends nothing, and
\* in Preview it closes the preview
C15_QuitIsGraceful ==
    [][/\ (CmdEnter /\ typed_parts = <<T_q>>) =>
              (result' = "quit" /\ ~prints_error(result'))
       /\ (result' /= "running" /\ ~(CmdEnter /\ typed_parts = <<T_q>>)) =>
              prints_error(result')
       /\ KeyUnbound => result' = "running"
       /\ KeyClose => (result' = "running" /\ mode' = "Explorer")]_vars

\* the line " q " was executed
C15_Witness ==
    /\ last = "quit"
    /\ result = "quit"
    /\ ~prints_error(result)
    /\ command_input = <<>>

\* C16: what a copy puts on the clipboard is the original text of the
\* document, which is the text of the file, or its conversion when the cursor
\* entered an .md file, and which no key changes; only a copy writes to the
\* clipboard
C16_CopyTransmitsRawSource ==
    [][/\ KeyCopy =>
              (/\ last' = "copied" => system_clipboard' = Some(doc.original_text)
               /\ last' /= "copied" => system_clipboard' = system_clipboard)
       /\ ~KeyCopy => system_clipboard' = system_clipboard
       /\ (preview_state /= None /\ preview_state' /= None) =>
              unwrap(preview_state').original_text = doc.original_text
       /\ (preview_state = None /\ preview_state' /= None) =>
              unwrap(preview_state').original_text =
                  IF last' = "enter markdown"
                  THEN markdown_to_html(FileText[unwrap(preview_state').title])
                  ELSE FileText[unwrap(preview_state').title]]_vars

\* the converted text of a.md was copied; the displayed text differs from it
C16_Witness ==
    /\ last = "copied"
    /\ is_some(preview_state)
    /\ doc.original_text = markdown_to_html(FileText[join(W, N_a_md)])
    /\ system_clipboard = Some(doc.original_text)
    /\ displayed_text(doc.content) /= doc.original_text

\* C17: a copy without a handle tries to acquire one; without one the status
\* is "Clipboard not available" and nothing is set; with one, a failing
\* set_text gives "Copy failed: .." and keeps the handle, a succeeding one
\* clears the status; the mode stays Preview
C17_CopyOutcomes ==
    [][KeyCopy =>
           LET d == unwrap(preview_state')
           IN  /\ mode' = "Preview"
               /\ last' \in {"clipboard not available", "copy failed", "copied"}
               /\ is_some(doc.clipboard) =>
                      (d.clipboard = doc.clipboard
                         /\ last' /= "clipboard not available")
               /\ d.clipboard = None =>
                      (/\ last' = "clipboard not available"
                       /\ d.status_message = Some(msg_clipboard_unavailable)
                       /\ system_clipboard' = system_clipboard)
               /\ is_some(d.clipboard) => last' \in {"copy failed", "copied"}
               /\ last' = "copy failed" =>
                      (/\ d.status_message = Some(msg_copy_failed(IoError))
                       /\ is_some(d.clipboard)
                       /\ system_clipboard' = system_clipboard)
               /\ last' = "copied" =>
                      (/\ d.status_message = None
                       /\ is_some(d.clipboard)
                       /\ system_clipboard' = Some(doc.original_text))]_vars

\* set_text has failed on a held handle, after a copy had succeeded
C17_Witness ==
    /\ last = "copy failed"
    /\ mode = "Preview"
    /\ is_some(doc.clipboard)
    /\ doc.status_message = Some(msg_copy_failed(IoError))
    /\ system_clipboard = Some(doc.original_text)

\* a name is before another in lexicographic byte order
lex_less(a, b) ==
    \E k \in 1..(Len(a) + 1) :
        /\ k <= Len(b)
        /\ \A i \in 1..(k - 1) : a[i] = b[i]
        /\ k = Len(a) + 1 \/ byte_rank(a[k]) < byte_rank(b[k])

occurrences(seq, x) == Cardinality({i \in 1..Len(seq) : seq[i] = x})

\* C18: the sorted entries are a permutation of the listing, every directory
\* is before every file, and the directories and the files are each in
\* ascending lexicographic order
C18_EntriesSorted ==
    [][SortEntries =>
           /\ Len(entries') = Len(entries)
           /\ \A i \in 1..Len(entries) :
                  occurrences(entries', entries[i]) = occurrences(entries, entries[i])
           /\ \A i, j \in 1..Len(entries') :
                  i < j =>
                      /\ is_dir(entries'[i]) \/ ~is_dir(entries'[j])
                      /\ is_dir(entries'[i]) = is_dir(entries'[j]) =>
                             lex_less(file_name(entries'[i]), file_name(entries'[j]))]_vars

\* a listing of a.md, b.txt and Sub was sorted
C18_Witness ==
    /\ last = "sorted"
    /\ entries = <<join(W, N_Sub), join(W, N_a_md), join(W, N_b_txt)>>
    /\ list_state = Some(0)

has(text, c) == \E i \in 1..Len(text) : text[i] = c

\* C19: the highlighted content of a converted document has one line per
\* line of the source, whose spans put together are that line; no span is
\* empty; a span holds "<" only as its first and ">" only as its last
\* scalar, is in the tag style exactly when it holds one of them, and ends
\* only after ">", before "<" or at the end of the line
C19_HighlightAutomaton ==
    (is_some(preview_state) /\ is_markdown(doc.title)) =>
        LET ls == lines(doc.original_text)
        IN  /\ Len(doc.content) = Len(ls)
            /\ \A i \in 1..Len(ls) :
                   LET spans == doc.content[i]
                   IN  /\ line_text(spans) = ls[i]
                       /\ \A k \in 1..Len(spans) :
                              LET t == spans[k].content
                              IN  /\ t /= <<>>
                                  /\ \A j \in 2..Len(t) : t[j] /= "<"
                                  /\ \A j \in 1..(Len(t) - 1) : t[j] /= ">"
                                  /\ spans[k].style =
                                         IF has(t, "<") \/ has(t, ">")
                                         THEN "comment" ELSE "fg"
                       /\ \A k \in 1..(Len(spans) - 1) :
                              \/ spans[k].content[Len(spans[k].content)] = ">"
                              \/ spans[k + 1].content[1] = "<"

\* the source "a><a>" was highlighted: "a>" ends a tag run that no "<"
\* began, "<a>" is a tag
C19_Witness ==
    /\ is_some(preview_state)
    /\ is_markdown(doc.title)
    /\ doc.content = <<<<Span(<<"a", ">">>, "comment"),
                         Span(<<"<", "a", ">">>, "comment")>>>>

\* C20 as stated: the displayed text of a plain-text document is its
\* original text
C20_RoundTrip ==
    (is_some(preview_state) /\ ~is_markdown(doc.title)) =>
        displayed_text(doc.content) = doc.original_text

\* a text with each carriage return that stands before a line feed left out
RECURSIVE crlf_to_lf(_)
crlf_to_lf(text) ==
    IF text = <<>> THEN <<>>
    ELSE IF Len(text) >= 2 /\ text[1] = "\r" /\ text[2] = "\n"
         THEN crlf_to_lf(Tail(text))
    ELSE <<Head(text)>> \o crlf_to_lf(Tail(text))

\* a text without its final line break, if it ends with one
drop_final_line_break(text) ==
    IF text /= <<>> /\ text[Len(text)] = "\n"
    THEN SubSeq(text, 1, Len(text) - 1)
    ELSE text

\* C20, amended: the displayed text of a plain-text document is its
\* original text with each CR LF pair as one line break and without the
\* final line break, in one style
C20_RoundTripButFinalBreak ==
    (is_some(preview_state) /\ ~is_markdown(doc.title)) =>
        /\ displayed_text(doc.content) =
               drop_final_line_break(crlf_to_lf(doc.original_text))
        /\ \A i \in 1..Len(doc.content) :
               Len(doc.content[i]) = 1 /\ doc.content[i][1].style = "fg"

\* a text with two line breaks in a row and one at its end is displayed
C20_Witness ==
    /\ is_some(preview_state)
    /\ ~is_markdown(doc.title)
    /\ doc.original_text = <<"a", "\n", "\n", "a", "\n">>
    /\ displayed_text(doc.content) = <<"a", "\n", "\n", "a">>

\* the second token of the typed command line, if there is one
typed_arg == IF Len(typed_parts) >= 2 THEN typed_parts[2] ELSE <<>>

\* the messages the execution of the typed command line can set
command_messages ==
    {msg_file_not_found(typed_arg), msg_read_error(IoError), msg_only_html,
     msg_open_failed(IoError), msg_opened(typed_arg),
     msg_unknown_command(trim(command_input))}

\* C21: after a key press handled in Explorer outside command mode, and
\* after the execution of a command line, the status is empty with the error
\* flag down, or it is a message of that very action (the read error of
\* the entry entered, a message of the command executed); the other keys of
\* command mode leave the status and the flag as they are
C21_StatusClearedByNextAction ==
    [][/\ (KeyColon \/ KeyNext \/ KeyPrevious \/ KeyParent \/ KeyEnter
             \/ KeyUnbound \/ CmdEnter) =>
              \/ status_message' = None /\ ~is_error'
              \/ /\ KeyEnter
                 /\ is_some(list_state)
                 /\ selected_entry \in Unreadable
                 /\ status_message' = Some(msg_read_error(IoError))
                 /\ is_error'
              \/ /\ CmdEnter
                 /\ typed_parts /= <<>>
                 /\ typed_parts /= <<T_q>>
                 /\ is_some(status_message')
                 /\ unwrap(status_message') \in command_messages
                 /\ is_error' = (status_message' /= Some(msg_opened(typed_arg)))
       /\ (CmdChar \/ CmdBackspace \/ CmdEsc \/ CmdUnbound) =>
              UNCHANGED <<status_message, is_error>>]_vars

\* a key without a binding was pressed while an error message was shown:
\* the message and the error flag are gone
C21_Witness ==
    /\ last = "unbound key"
    /\ is_some(prev_message[1])
    /\ prev_message[2]
    /\ status_message = None
    /\ ~is_error

\* C22: while command mode is active and while the mode is Preview the
\* Explorer has no status message, and the error flag is up only while it
\* has one
C22_StatusOnlyInNormal ==
    /\ (in_command_mode \/ mode = "Preview") => status_message = None
    /\ is_error => is_some(status_message)

\* a file was entered while an error message was shown: the Preview is open
\* and the Explorer has neither the message nor the flag
C22_Witness ==
    /\ mode = "Preview"
    /\ last = "enter file"
    /\ is_some(prev_message[1])
    /\ prev_message[2]
    /\ status_message = None
    /\ ~is_error

\* C23: the directory and the entries change only by the parent key or
\* by entering a directory, outside command mode; the cursor changes only
\* by those and by the next and previous keys; a step taken in command
\* mode or in Preview, a poll timeout and an event that is no key press
\* leave all three as they are
C23_ExplorerFrame ==
    [][/\ (current_path' /= current_path \/ entries' /= entries) =>
              /\ Normal
              /\ \/ KeyParent
                 \/ KeyEnter /\ is_some(list_state) /\ is_dir(selected_entry)
       /\ list_state' /= list_state =>
              /\ Normal
              /\ \/ KeyParent
                 \/ KeyEnter /\ is_some(list_state) /\ is_dir(selected_entry)
                 \/ KeyNext
                 \/ KeyPrevious
       /\ (in_command_mode \/ mode = "Preview"
             \/ last' \in {"timeout", "not a key press"}) =>
              UNCHANGED <<current_path, entries, list_state>>]_vars

\* a Preview was closed: the Explorer is in the directory it was in, with
\* the entries it had and the cursor on a file that is not the first entry
C23_Witness ==
    /\ last = "close preview"
    /\ mode = "Explorer"
    /\ current_path = W
    /\ entries = unwrap(load_entries(W)).entries
    /\ is_some(list_state)
    /\ unwrap(list_state) > 0
    /\ is_file(selected_entry)

====
